---- MODULE Spec2Model ----
(***************************************************************************)
(* Model of gd::ExpressionValidator::ValidateFunction                      *)
(* (Core/GDCore/IDE/Events/ExpressionValidator.cpp) and of the parameter   *)
(* counting helpers it uses.                                               *)
(*                                                                         *)
(* The validator walks a FunctionCallNode.  The model keeps the call stack *)
(* of ValidateFunction activations explicitly; the parts of the syntax     *)
(* tree the validator has not read yet are chosen when they are first      *)
(* read (node.diagnostic, function.parameters.size(), each parameter       *)
(* node).  Vector indices are the 0-based indices of the C++ code; a TLA+  *)
(* sequence element for C++ index i is s[i + 1].                           *)
(***************************************************************************)
EXTENDS Integers, Sequences, FiniteSets, TLC

\* Bound: number of written parameter nodes in the whole expression tree.
MaxNodes == 3

\* Bound: length of the metadata parameter lists given to the counting helpers.
MaxListLen == 3

(***************************************************************************)
(* Types and strings                                                       *)
(***************************************************************************)
\* ExpressionValidator::Type
Type ==
  {"Unknown", "Number", "String", "NumberOrString", "Variable", "Object",
   "Empty"}

\* gd::ParameterMetadata::IsExpression(type, parameterType)
IsExpression(type, parameterType) ==
  CASE type = "number" ->
         parameterType \in {"expression", "camera", "forceMultiplier"}
    [] type = "string" ->
         parameterType \in {"string", "layer", "color", "file", "joyaxis"}
    [] type = "variable" ->
         parameterType \in {"objectvar", "globalvar", "scenevar"}
    [] OTHER -> FALSE

\* gd::ParameterMetadata::IsObject(parameterType)
IsObject(parameterType) ==
  parameterType \in
    {"object", "objectPtr", "objectList", "objectListOrEmptyIfJustDeclared"}

\* ExpressionValidator::stringToType
stringToType(type) ==
  IF type = "number" \/ IsExpression("number", type) THEN "Number"
  ELSE IF type = "string" \/ IsExpression("string", type) THEN "String"
  ELSE IF type = "number|string" THEN "NumberOrString"
  ELSE IF type = "variable" \/ IsExpression("variable", type) THEN "Variable"
  ELSE IF type = "object" \/ IsObject(type) THEN "Object"
  ELSE "Unknown"

\* ExpressionValidator::typeToSting
typeToSting(type) ==
  CASE type = "Unknown" -> "unknown"
    [] type = "Number" -> "number"
    [] type = "String" -> "string"
    [] type = "NumberOrString" -> "number|string"
    [] type = "Variable" -> "variable"
    [] type = "Object" -> "object"
    [] type = "Empty" -> "empty"
    [] OTHER -> "unknown"

\* One decimal digit as text.
Digit(d) ==
  CASE d = 0 -> "0" [] d = 1 -> "1" [] d = 2 -> "2" [] d = 3 -> "3"
    [] d = 4 -> "4" [] d = 5 -> "5" [] d = 6 -> "6" [] d = 7 -> "7"
    [] d = 8 -> "8" [] d = 9 -> "9"

\* gd::String::From(size_t): the decimal text of n, one element per character.
RECURSIVE From(_)
From(n) == IF n < 10 THEN <<Digit(n)>> ELSE From(n \div 10) \o <<Digit(n % 10)>>

(***************************************************************************)
(* Metadata                                                                *)
(***************************************************************************)
\* gd::ParameterMetadata: type tag, optional flag, codeOnly flag.
Parameter(type) == [type |-> type, optional |-> FALSE, codeOnly |-> FALSE]
OptionalParameter(type) == [type |-> type, optional |-> TRUE, codeOnly |-> FALSE]
CodeOnlyParameter(type) == [type |-> type, optional |-> FALSE, codeOnly |-> TRUE]

\* gd::ExpressionMetadata
ExpressionMetadata(returnType, capability, parameters) ==
  [returnType |-> returnType,
   requiredBaseObjectCapability |-> capability,
   parameters |-> parameters]

\* MetadataProvider::badExpressionMetadata, the "not found" sentinel.
badExpressionMetadata == ExpressionMetadata("unknown", "", <<>>)

\* MetadataProvider::IsBadExpressionMetadata
IsBadExpressionMetadata(metadata) == metadata = badExpressionMetadata

\* Free expressions of the platform.
FreeExpressions ==
  [Zero     |-> ExpressionMetadata("number", "", <<>>),
   Pick     |-> ExpressionMetadata("number", "",
                  <<Parameter("expression"), OptionalParameter("expression")>>),
   Scene    |-> ExpressionMetadata("string", "",
                  <<CodeOnlyParameter("currentScene"), Parameter("string")>>),
   Count    |-> ExpressionMetadata("number", "",
                  <<Parameter("objectList"), Parameter("objectvar")>>),
   Weird    |-> ExpressionMetadata("number|string", "",
                  <<Parameter("weird")>>),
   TheVar   |-> ExpressionMetadata("variable", "", <<>>),
   TheObj   |-> ExpressionMetadata("object", "", <<>>),
   Flag     |-> ExpressionMetadata("boolean", "", <<>>),
   Shader   |-> ExpressionMetadata("number", "effect", <<>>)]

\* Object expressions (the same for every object type of the platform).
ObjectExpressions ==
  [X        |-> ExpressionMetadata("number", "", <<Parameter("object")>>),
   Distance |-> ExpressionMetadata("number", "",
                  <<Parameter("object"), Parameter("expression")>>),
   Glow     |-> ExpressionMetadata("string", "effect",
                  <<Parameter("object"), OptionalParameter("expression")>>)]

\* Behavior expressions of the behavior type "PlatformBehavior".
BehaviorExpressions ==
  [Speed    |-> ExpressionMetadata("number", "",
                  <<Parameter("object"), Parameter("behavior"),
                    CodeOnlyParameter("currentScene"),
                    OptionalParameter("expression")>>)]

\* MetadataProvider::GetAnyExpressionMetadata
GetAnyExpressionMetadata(functionName) ==
  IF functionName \in DOMAIN FreeExpressions
  THEN FreeExpressions[functionName] ELSE badExpressionMetadata

\* MetadataProvider::GetObjectAnyExpressionMetadata
GetObjectAnyExpressionMetadata(objectType, functionName) ==
  IF objectType # "" /\ functionName \in DOMAIN ObjectExpressions
  THEN ObjectExpressions[functionName] ELSE badExpressionMetadata

\* MetadataProvider::GetBehaviorAnyExpressionMetadata
GetBehaviorAnyExpressionMetadata(behaviorType, functionName) ==
  IF behaviorType = "PlatformBehavior"
     /\ functionName \in DOMAIN BehaviorExpressions
  THEN BehaviorExpressions[functionName] ELSE badExpressionMetadata

\* gd::GetTypeOfObject over the objects of the project and the layout.
GetTypeOfObject(objectName) ==
  CASE objectName = "MyObject" -> "Sprite"
    [] objectName = "MyText" -> "TextObject"
    [] OTHER -> ""

\* gd::GetTypeOfBehavior
GetTypeOfBehavior(behaviorName) ==
  IF behaviorName = "MyBehavior" THEN "PlatformBehavior" ELSE ""

\* gd::ObjectMetadata::IsUnsupportedBaseObjectCapability of
\* MetadataProvider::GetObjectMetadata(platform, objectType)
IsUnsupportedBaseObjectCapability(objectType, capability) ==
  objectType = "TextObject" /\ capability = "effect"

\* ExpressionParser2::WrittenParametersFirstIndex
WrittenParametersFirstIndex(objectName, behaviorName) ==
  IF behaviorName # "" THEN 2 ELSE IF objectName # "" THEN 1 ELSE 0

(***************************************************************************)
(* Parameter counting helpers                                              *)
(***************************************************************************)
RECURSIVE MinimumFrom(_, _, _)
\* The loop of GetMinimumParametersNumber from index i with nb counted so far.
MinimumFrom(parameters, i, nb) ==
  IF i < Len(parameters)
  THEN MinimumFrom(parameters, i + 1,
         IF ~parameters[i + 1].optional /\ ~parameters[i + 1].codeOnly
         THEN nb + 1 ELSE nb)
  ELSE nb

\* A counting helper that forgets the optional flag.
GetMinimumParametersNumberIgnoringOptional(parameters, initialParameterIndex) ==
  Cardinality({i \in 1..Len(parameters) :
                 i > initialParameterIndex /\ ~parameters[i].codeOnly})

\* GetMinimumParametersNumber
GetMinimumParametersNumber(parameters, initialParameterIndex) ==
  MinimumFrom(parameters, initialParameterIndex, 0)

RECURSIVE MaximumFrom(_, _, _)
\* The loop of GetMaximumParametersNumber from index i with nb counted so far.
MaximumFrom(parameters, i, nb) ==
  IF i < Len(parameters)
  THEN MaximumFrom(parameters, i + 1,
         IF ~parameters[i + 1].codeOnly THEN nb + 1 ELSE nb)
  ELSE nb

\* GetMaximumParametersNumber
GetMaximumParametersNumber(parameters, initialParameterIndex) ==
  MaximumFrom(parameters, initialParameterIndex, 0)

(***************************************************************************)
(* Syntax tree nodes and diagnostics                                       *)
(***************************************************************************)
\* ExpressionParserLocation of the node at the given path of the tree; part
\* tells function.location from function.objectNameLocation.
Location(path, part) == [path |-> path, part |-> part]

\* gd::FunctionCallNode (its parameters and diagnostic are read later).
FunctionCallNode(objectName, behaviorName, functionName) ==
  [kind |-> "function", identifierName |-> "", objectName |-> objectName,
   behaviorName |-> behaviorName, functionName |-> functionName]

\* gd::NumberNode, gd::IdentifierNode and gd::OperatorNode (1+1).
NumberNode == [FunctionCallNode("", "", "") EXCEPT !.kind = "number"]
IdentifierNode ==
  [FunctionCallNode("", "", "") EXCEPT !.kind = "identifier",
                                       !.identifierName = "MyObject"]
OperatorNode == [FunctionCallNode("", "", "") EXCEPT !.kind = "operator"]

\* The calls a validation can start from: every registered expression and an
\* unknown name, in the three call shapes.
RootCalls ==
  {FunctionCallNode("", "", n) :
     n \in DOMAIN FreeExpressions \cup {"UndefinedFunction"}}
  \cup {FunctionCallNode(o, "", n) :
     o \in {"MyObject", "MyText"},
     n \in DOMAIN ObjectExpressions \cup {"UndefinedFunction"}}
  \cup {FunctionCallNode("MyObject", "MyBehavior", n) :
     n \in DOMAIN BehaviorExpressions \cup {"UndefinedFunction"}}

\* The calls written as a parameter of another call.
NestedCalls ==
  {FunctionCallNode("", "", "Zero"), FunctionCallNode("", "", "Pick"),
   FunctionCallNode("", "", "UndefinedFunction"),
   FunctionCallNode("MyText", "", "Glow")}

\* The nodes written as a parameter of a call.
ParameterNodes == {NumberNode, IdentifierNode, OperatorNode} \cup NestedCalls

\* gd::ExpressionParserDiagnostic as recorded by RaiseError: the message is
\* kept as the sequence of the pieces it is concatenated from.
RaiseError(code, message, location) ==
  [code |-> code, message |-> message, location |-> location]

\* ExpressionValidator::RaiseTypeError
RaiseTypeError(message, location) == RaiseError("type_error", message, location)

\* The diagnostic the parser attached to a node (node.diagnostic).
ParserDiagnostic(location) ==
  RaiseError("syntax_error", <<"parser diagnostic">>, location)

(***************************************************************************)
(* State                                                                   *)
(***************************************************************************)
VARIABLES
  stack,           \* activations of ValidateFunction, innermost last
  errors,          \* the diagnostics list of the validator
  parentType,      \* ExpressionValidator::parentType
  childType,       \* ExpressionValidator::childType
  lastObjectName,  \* ExpressionValidator::lastObjectName
  budget,          \* written parameter nodes the tree may still contain
  lastReturn,      \* the most recent return of ValidateFunction
  countInput,      \* arguments given to the counting helpers
  countResult,     \* what the counting helpers returned for countInput
  previewWindows,        \* PreviewWindow.js: the global list of windows
  openDevToolsByDefault, \* PreviewWindow.js: the global flag
  browserWindows,        \* the BrowserWindow objects created so far
  lastDevToolsEvent      \* the most recent dev tools event of any window

vars ==
  <<stack, errors, parentType, childType, lastObjectName, budget, lastReturn,
    countInput, countResult,
    previewWindows, openDevToolsByDefault, browserWindows, lastDevToolsEvent>>

validatorVars ==
  <<stack, errors, parentType, childType, lastObjectName, budget, lastReturn>>

countVars == <<countInput, countResult>>

previewVars ==
  <<previewWindows, openDevToolsByDefault, browserWindows, lastDevToolsEvent>>

\* PreviewWindow.js lines 9-11: the module is loaded and no window is open.
NoPreview ==
  /\ previewWindows = <<>>
  /\ openDevToolsByDefault = FALSE
  /\ browserWindows = <<>>
  /\ lastDevToolsEvent = "none"

\* The activation record of ValidateFunction(function) entered at the given
\* path: the locals of the function, plus the diagnostics count and the
\* parentType at entry and the list of the parameters visited so far.
Frame(function, path, entryErrors, entryParentType) ==
  [function |-> function,
   location |-> Location(path, "node"),
   objectNameLocation |-> Location(path, "objectName"),
   pc |-> "start",
   diagnostic |-> FALSE,
   size |-> 0,
   objectType |-> "",
   behaviorType |-> "",
   metadata |-> badExpressionMetadata,
   returnType |-> "Unknown",
   minParametersCount |-> 0,
   maxParametersCount |-> 0,
   parameterIndex |-> 0,
   parameter |-> NumberNode,
   parameterMetadata |-> Parameter(""),
   outOfBounds |-> FALSE,
   currentParentType |-> "Unknown",
   entryErrors |-> entryErrors,
   entryParentType |-> entryParentType,
   visits |-> <<>>]

NoReturn ==
  [site |-> "none", type |-> "Unknown", frame |-> Frame(NumberNode, <<>>, 0, "Unknown"),
   added |-> <<>>, parentType |-> "Unknown", depth |-> 0]

NoCount == [parameters |-> <<>>, initialParameterIndex |-> 0]

\* The activation that is running.
top == stack[Len(stack)]

\* The stack with the running activation replaced by f.
SetTop(f) == [stack EXCEPT ![Len(stack)] = f]

\* `return type;` at the given site of ValidateFunction, with frame the
\* activation at that point and newErrors the diagnostics list: the
\* activation ends, and the visitor that called it (OnVisitFunctionCallNode)
\* stores the type in childType.
Return(frame, type, site, newErrors) ==
  /\ errors' = newErrors
  /\ childType' = type
  /\ stack' =
       IF Len(stack) = 1 THEN <<>>
       ELSE [SubSeq(stack, 1, Len(stack) - 1)
               EXCEPT ![Len(stack) - 1].pc = "visited"]
  /\ lastReturn' =
       [site |-> site, type |-> type, frame |-> frame,
        added |-> SubSeq(newErrors, frame.entryErrors + 1, Len(newErrors)),
        parentType |-> parentType, depth |-> Len(stack)]

Init ==
  /\ errors = <<>>
  /\ parentType \in Type
  /\ childType = "Unknown"
  /\ lastObjectName = ""
  /\ budget = MaxNodes
  /\ lastReturn = NoReturn
  /\ \E function \in RootCalls : stack = <<Frame(function, <<>>, 0, parentType)>>
  /\ countInput = NoCount
  /\ countResult = <<>>
  /\ NoPreview

(***************************************************************************)
(* ValidateFunction, one action per block of the function                  *)
(***************************************************************************)
\* Lines 63-77: ReportAnyError(function), then the types of the object and
\* of the behavior and the metadata of the function are looked up.
EnterFunction ==
  /\ stack # <<>>
  /\ top.pc = "start"
  /\ \E diagnostic \in BOOLEAN :
       LET function == top.function
           objectType ==
             IF function.objectName = "" THEN ""
             ELSE GetTypeOfObject(function.objectName)
           behaviorType ==
             IF function.behaviorName = "" THEN ""
             ELSE GetTypeOfBehavior(function.behaviorName)
           metadata ==
             IF function.behaviorName = ""
             THEN IF function.objectName = ""
                  THEN GetAnyExpressionMetadata(function.functionName)
                  ELSE GetObjectAnyExpressionMetadata(
                         objectType, function.functionName)
             ELSE GetBehaviorAnyExpressionMetadata(
                    behaviorType, function.functionName)
       IN /\ errors' =
               IF diagnostic
               THEN Append(errors, ParserDiagnostic(top.location))
               ELSE errors
          /\ stack' = SetTop([top EXCEPT !.diagnostic = diagnostic,
                                         !.objectType = objectType,
                                         !.behaviorType = behaviorType,
                                         !.metadata = metadata,
                                         !.pc = "capability"])
  /\ UNCHANGED <<parentType, childType, lastObjectName, budget, lastReturn>>
  /\ UNCHANGED <<countVars, previewVars>>

\* Whether lines 79-87 find a required capability the object does not support.
CapabilityIsUnsupported(f) ==
  /\ f.function.objectName # ""
  /\ f.metadata.requiredBaseObjectCapability # ""
  /\ IsUnsupportedBaseObjectCapability(
       f.objectType, f.metadata.requiredBaseObjectCapability)

\* The capability diagnostic located at the whole call instead.
CapabilityErrorAtCall(f) ==
  RaiseTypeError(
    <<"This expression exists, but it can't be used on this object.">>,
    f.location)

\* Lines 88-90: the capability diagnostic, located at the object name.
CapabilityError(f) ==
  RaiseTypeError(
    <<"This expression exists, but it can't be used on this object.">>,
    f.objectNameLocation)

\* Lines 79-94: the capability check of an object call.
CheckCapability ==
  /\ stack # <<>>
  /\ top.pc = "capability"
  /\ IF CapabilityIsUnsupported(top)
     THEN /\ Return(top, stringToType(top.metadata.returnType), "capability",
               Append(errors, CapabilityError(top)))
     ELSE /\ stack' = SetTop([top EXCEPT !.pc = "name"])
          /\ UNCHANGED <<errors, childType, lastReturn>>
  /\ UNCHANGED <<parentType, lastObjectName, budget>>
  /\ UNCHANGED <<countVars, previewVars>>

\* The diagnostic of a name without metadata that leaves the name out.
InvalidFunctionNameErrorWithoutName(f) ==
  RaiseError("invalid_function_name",
    <<"Cannot find an expression with this name: ", "\n",
      "Double check that you've not made any typo in the name.">>,
    f.location)

\* Lines 99-104: the diagnostic of a name without metadata.
InvalidFunctionNameError(f) ==
  RaiseError("invalid_function_name",
    <<"Cannot find an expression with this name: ",
      f.function.functionName, "\n",
      "Double check that you've not made any typo in the name.">>,
    f.location)

\* Lines 96-106: the return type is read and an unknown name is reported.
CheckFunctionName ==
  /\ stack # <<>>
  /\ top.pc = "name"
  /\ LET returnType == stringToType(top.metadata.returnType)
     IN IF IsBadExpressionMetadata(top.metadata)
        THEN Return(top, returnType, "name",
               Append(errors, InvalidFunctionNameError(top)))
        ELSE /\ stack' = SetTop([top EXCEPT !.returnType = returnType,
                                            !.pc = "returnType"])
             /\ UNCHANGED <<errors, childType, lastReturn>>
  /\ UNCHANGED <<parentType, lastObjectName, budget>>
  /\ UNCHANGED <<countVars, previewVars>>

\* A return type check that compares every return type exactly, without the
\* NumberOrString cases of numbers and strings.
ReturnTypeErrorExactOnly(returnType, expected) ==
  IF expected # returnType
  THEN <<"You tried to use an expression with the wrong return type:",
         " ", typeToSting(returnType)>>
  ELSE <<>>

\* Lines 108-149: the message of the return type error raised for a call
\* returning returnType where expected is expected, <<>> when none is raised.
ReturnTypeError(returnType, expected) ==
  IF returnType = "Number"
  THEN IF expected = "String"
       THEN <<"You tried to use an expression that returns a number, but a string is expected. Use ToString if you need to convert a number to a string.">>
       ELSE IF expected # "Number" /\ expected # "NumberOrString"
       THEN <<"You tried to use an expression that returns a number, but another type is expected:",
              " ", typeToSting(expected)>>
       ELSE <<>>
  ELSE IF returnType = "String"
  THEN IF expected = "Number"
       THEN <<"You tried to use an expression that returns a string, but a number is expected. Use ToNumber if you need to convert a string to a number.">>
       ELSE IF expected # "String" /\ expected # "NumberOrString"
       THEN <<"You tried to use an expression that returns a string, but another type is expected:",
              " ", typeToSting(expected)>>
       ELSE <<>>
  ELSE IF expected # returnType
       THEN <<"You tried to use an expression with the wrong return type:",
              " ", typeToSting(returnType)>>
       ELSE <<>>

\* Lines 108-149: the return type is checked against parentType.
CheckReturnType ==
  /\ stack # <<>>
  /\ top.pc = "returnType"
  /\ LET message == ReturnTypeError(top.returnType, parentType)
     IN IF message # <<>>
        THEN Return(top, top.returnType, "returnType",
               Append(errors, RaiseTypeError(message, top.location)))
        ELSE /\ stack' = SetTop([top EXCEPT !.pc = "count"])
             /\ UNCHANGED <<errors, childType, lastReturn>>
  /\ UNCHANGED <<parentType, lastObjectName, budget>>
  /\ UNCHANGED <<countVars, previewVars>>

\* An expectedCountMessage that always names the minimum as the exact count.
ExpectedCountMessageAlwaysExact(minParametersCount, maxParametersCount) ==
  <<"The number of parameters must be exactly ">> \o From(minParametersCount)

\* Lines 160-166: expectedCountMessage.
ExpectedCountMessage(minParametersCount, maxParametersCount) ==
  IF minParametersCount = maxParametersCount
  THEN <<"The number of parameters must be exactly ">>
         \o From(minParametersCount)
  ELSE <<"The number of parameters must be: ">>
         \o From(minParametersCount) \o <<"-">> \o From(maxParametersCount)

\* A test for too few written parameters that is off by one.
HasTooFewParametersOffByOne(size, minParametersCount) ==
  size <= minParametersCount

\* Line 168: the test for too few written parameters.
HasTooFewParameters(size, minParametersCount) == size < minParametersCount

\* Lines 172-176: the too_few_parameters diagnostic.
TooFewParametersError(f) ==
  RaiseError("too_few_parameters",
    <<"You have not entered enough parameters for the expression. ">>
      \o ExpectedCountMessage(f.minParametersCount, f.maxParametersCount),
    f.location)

\* Lines 151-179: the number of written parameters is checked.  Too many
\* written parameters raise nothing and go on to the loop.
CheckParametersCount ==
  /\ stack # <<>>
  /\ top.pc = "count"
  /\ \E size \in 0..budget :
       LET first == WrittenParametersFirstIndex(
                      top.function.objectName, top.function.behaviorName)
           minParametersCount ==
             GetMinimumParametersNumber(top.metadata.parameters, first)
           maxParametersCount ==
             GetMaximumParametersNumber(top.metadata.parameters, first)
           counted == [top EXCEPT
                        !.size = size,
                        !.minParametersCount = minParametersCount,
                        !.maxParametersCount = maxParametersCount]
       IN /\ budget' = budget - size
          /\ IF HasTooFewParameters(size, minParametersCount)
             THEN Return(counted, top.returnType, "tooFew",
                    Append(errors, TooFewParametersError(counted)))
             ELSE /\ stack' = SetTop([counted EXCEPT !.parameterIndex = 0,
                                                      !.pc = "loop"])
                  /\ UNCHANGED <<errors, childType, lastReturn>>
  /\ UNCHANGED <<parentType, lastObjectName>>
  /\ UNCHANGED <<countVars, previewVars>>

\* What the memory after the end of the metadata parameter list may hold
\* when it is read as a gd::ParameterMetadata.
GarbageParameters ==
  {CodeOnlyParameter(""), Parameter("")}

\* A use of the metadata entry that pushes the expected type without saving
\* the current one first.
UseParameterMetadataWithoutSaving(parameterMetadata, outOfBounds) ==
  IF parameterMetadata.codeOnly
  THEN /\ stack' = SetTop([top EXCEPT
             !.parameterMetadata = parameterMetadata,
             !.outOfBounds = outOfBounds,
             !.parameterIndex = top.parameterIndex + 1])
       /\ UNCHANGED parentType
  ELSE /\ stack' = SetTop([top EXCEPT
             !.parameterMetadata = parameterMetadata,
             !.outOfBounds = outOfBounds,
             !.pc = "visit"])
       /\ parentType' = stringToType(parameterMetadata.type)

\* Lines 187-192 for the metadata entry read at line 185: a code-only entry
\* continues the loop, any other entry pushes its type as the expected type.
UseParameterMetadata(parameterMetadata, outOfBounds) ==
  IF parameterMetadata.codeOnly
  THEN /\ stack' = SetTop([top EXCEPT
             !.parameterMetadata = parameterMetadata,
             !.outOfBounds = outOfBounds,
             !.parameterIndex = top.parameterIndex + 1])
       /\ UNCHANGED parentType
  ELSE /\ stack' = SetTop([top EXCEPT
             !.parameterMetadata = parameterMetadata,
             !.outOfBounds = outOfBounds,
             !.currentParentType = parentType,
             !.pc = "visit"])
       /\ parentType' = stringToType(parameterMetadata.type)

\* Lines 183-192 and 236: the loop ends and the function returns, or the
\* next written parameter and the metadata entry of the same index are read.
NextParameter ==
  /\ stack # <<>>
  /\ top.pc = "loop"
  /\ IF top.parameterIndex >= top.size
     THEN /\ Return(top, top.returnType, "end", errors)
          /\ UNCHANGED parentType
     ELSE /\ top.parameterIndex < Len(top.metadata.parameters)
          /\ UseParameterMetadata(
               top.metadata.parameters[top.parameterIndex + 1], FALSE)
          /\ UNCHANGED <<errors, childType, lastReturn>>
  /\ UNCHANGED <<lastObjectName, budget>>
  /\ UNCHANGED <<countVars, previewVars>>

\* Line 185 when parameterIndex is not an index of metadata.GetParameters():
\* the read has undefined behaviour; the process crashes or goes on with
\* whatever the memory holds.
ReadParameterMetadataOutOfBounds ==
  /\ stack # <<>>
  /\ top.pc = "loop"
  /\ top.parameterIndex < top.size
  /\ top.parameterIndex >= Len(top.metadata.parameters)
  /\ \/ /\ stack' = SetTop([top EXCEPT !.outOfBounds = TRUE,
                                       !.pc = "crashed"])
        /\ UNCHANGED parentType
     \/ \E garbage \in GarbageParameters :
          UseParameterMetadata(garbage, TRUE)
  /\ UNCHANGED <<errors, childType, lastObjectName, budget, lastReturn>>
  /\ UNCHANGED <<countVars, previewVars>>

\* The path of the written parameter the running activation is at.
ParameterPath(f) == Append(f.location.path, f.parameterIndex)

\* Line 193 as seen from outside: the index of the written parameter that is
\* visited and the index of the metadata entry it is visited for (lines
\* 184-185 use parameterIndex for both).
Visited(f) == [written |-> f.parameterIndex, metadata |-> f.parameterIndex]

\* The visitors of the nodes that are not function calls: each sets childType
\* and reports a node that does not fit the expected type.
VisitLeaf ==
  /\ stack # <<>>
  /\ top.pc = "visit"
  /\ \E node \in {NumberNode, IdentifierNode, OperatorNode} :
       LET location == Location(ParameterPath(top), "node")
       IN /\ stack' = SetTop([top EXCEPT
                 !.parameter = node,
                 !.visits = Append(top.visits, Visited(top)),
                 !.pc = "visited"])
          /\ IF node.kind = "identifier"
             THEN /\ childType' =
                       IF parentType \in {"Object", "Variable"}
                       THEN parentType ELSE "Unknown"
                  /\ lastObjectName' =
                       IF parentType = "Object"
                       THEN node.identifierName ELSE lastObjectName
                  /\ errors' =
                       IF parentType \in {"Object", "Variable"} THEN errors
                       ELSE Append(errors, RaiseTypeError(
                              <<"You've entered a name, but this type was expected:",
                                typeToSting(parentType)>>, location))
             ELSE /\ childType' = "Number"
                  /\ UNCHANGED lastObjectName
                  /\ errors' =
                       IF parentType \in {"Number", "NumberOrString"}
                       THEN errors
                       ELSE Append(errors, RaiseTypeError(
                              <<"You entered a number, but this type was expected:",
                                typeToSting(parentType)>>, location))
  /\ UNCHANGED <<parentType, budget, lastReturn>>
  /\ UNCHANGED <<countVars, previewVars>>

\* Line 193 for a parameter that is a function call: OnVisitFunctionCallNode
\* calls ValidateFunction on it.
VisitFunctionCall ==
  /\ stack # <<>>
  /\ top.pc = "visit"
  /\ \E node \in NestedCalls :
       stack' = Append(
         SetTop([top EXCEPT !.parameter = node,
                            !.visits = Append(top.visits, Visited(top)),
                            !.pc = "visiting"]),
         Frame(node, ParameterPath(top), Len(errors), parentType))
  /\ UNCHANGED <<errors, parentType, childType, lastObjectName, budget,
                 lastReturn>>
  /\ UNCHANGED <<countVars, previewVars>>

\* A parameter check that reports every object parameter as malformed,
\* identifiers included.
ParameterErrorForEveryObject(expectedParameterType, parameter, location) ==
  IF IsExpression("number", expectedParameterType) THEN <<>>
  ELSE IF IsExpression("string", expectedParameterType) THEN <<>>
  ELSE IF IsExpression("variable", expectedParameterType) THEN <<>>
  ELSE IF IsObject(expectedParameterType)
  THEN <<RaiseError("malformed_object_parameter",
           <<"An object name was expected but something else was written. Enter just the name of the object for this parameter.">>,
           location)>>
  ELSE <<RaiseError("unknown_parameter_type",
           <<"This function is improperly set up. Reach out to the extension developer or a GDevelop maintainer to fix this issue">>,
           location)>>

\* Lines 196-234: the diagnostic raised for a visited parameter of the given
\* metadata type, <<>> when none is raised.
ParameterError(expectedParameterType, parameter, location) ==
  IF IsExpression("number", expectedParameterType) THEN <<>>
  ELSE IF IsExpression("string", expectedParameterType) THEN <<>>
  ELSE IF IsExpression("variable", expectedParameterType) THEN <<>>
  ELSE IF IsObject(expectedParameterType)
  THEN IF parameter.kind = "identifier" THEN <<>>
       ELSE <<RaiseError("malformed_object_parameter",
                <<"An object name was expected but something else was written. Enter just the name of the object for this parameter.">>,
                location)>>
  ELSE <<RaiseError("unknown_parameter_type",
           <<"This function is improperly set up. Reach out to the extension developer or a GDevelop maintainer to fix this issue">>,
           location)>>

\* A parameter check that puts its diagnostic at the head of the list.
CheckParameterTypePrepending ==
  /\ stack # <<>>
  /\ top.pc = "visited"
  /\ LET expectedParameterType == top.parameterMetadata.type
     IN /\ parentType' = top.currentParentType
        /\ errors' =
             ParameterError(expectedParameterType, top.parameter,
                            Location(ParameterPath(top), "node")) \o errors
        /\ lastObjectName' =
             IF /\ ~IsExpression("number", expectedParameterType)
                /\ ~IsExpression("string", expectedParameterType)
                /\ ~IsExpression("variable", expectedParameterType)
                /\ IsObject(expectedParameterType)
                /\ top.parameter.kind = "identifier"
             THEN top.parameter.identifierName
             ELSE lastObjectName
        /\ stack' = SetTop([top EXCEPT
              !.parameterIndex = top.parameterIndex + 1,
              !.pc = "loop"])
  /\ UNCHANGED <<childType, budget, lastReturn>>
  /\ UNCHANGED <<countVars, previewVars>>

\* Lines 194-235: the expected type is restored and the visited parameter is
\* checked against the family of its metadata type.
CheckParameterType ==
  /\ stack # <<>>
  /\ top.pc = "visited"
  /\ LET expectedParameterType == top.parameterMetadata.type
     IN /\ parentType' = top.currentParentType
        /\ errors' = errors \o
             ParameterError(expectedParameterType, top.parameter,
                            Location(ParameterPath(top), "node"))
        /\ lastObjectName' =
             IF /\ ~IsExpression("number", expectedParameterType)
                /\ ~IsExpression("string", expectedParameterType)
                /\ ~IsExpression("variable", expectedParameterType)
                /\ IsObject(expectedParameterType)
                /\ top.parameter.kind = "identifier"
             THEN top.parameter.identifierName
             ELSE lastObjectName
        /\ stack' = SetTop([top EXCEPT
              !.parameterIndex = top.parameterIndex + 1,
              !.pc = "loop"])
  /\ UNCHANGED <<childType, budget, lastReturn>>
  /\ UNCHANGED <<countVars, previewVars>>

Next ==
  \/ EnterFunction
  \/ CheckCapability
  \/ CheckFunctionName
  \/ CheckReturnType
  \/ CheckParametersCount
  \/ NextParameter
  \/ ReadParameterMetadataOutOfBounds
  \/ VisitLeaf
  \/ VisitFunctionCall
  \/ CheckParameterType

Spec == Init /\ [][Next]_vars

(***************************************************************************)
(* The counting helpers on their own                                       *)
(***************************************************************************)
\* The optional and codeOnly flags a metadata entry can carry.
ParameterFlags ==
  {[type |-> "expression", optional |-> o, codeOnly |-> c] :
     o \in BOOLEAN, c \in BOOLEAN}

\* The metadata parameter lists of at most MaxListLen entries.
ParameterLists == UNION {[1..n -> ParameterFlags] : n \in 0..MaxListLen}

InitCount ==
  /\ stack = <<>>
  /\ errors = <<>>
  /\ parentType = "Unknown"
  /\ childType = "Unknown"
  /\ lastObjectName = ""
  /\ budget = 0
  /\ lastReturn = NoReturn
  /\ countInput \in
       [parameters : ParameterLists, initialParameterIndex : 0..2]
  /\ countResult = <<>>
  /\ NoPreview

\* Lines 152-157: both helpers are called on the same list and first index.
ComputeCounts ==
  /\ countResult = <<>>
  /\ countResult' =
       <<GetMinimumParametersNumber(
           countInput.parameters, countInput.initialParameterIndex),
         GetMaximumParametersNumber(
           countInput.parameters, countInput.initialParameterIndex)>>
  /\ UNCHANGED countInput
  /\ UNCHANGED <<validatorVars, previewVars>>

NextCount == ComputeCounts

SpecCount == InitCount /\ [][NextCount]_vars

(***************************************************************************)
(* PreviewWindow.js: the preview windows of the editor                     *)
(***************************************************************************)
\* The number of preview windows opened in a run.
MaxWindows == 3

\* The windows created so far, and those that have not received 'closed'.
Windows == 1..Len(browserWindows)
OpenWindows == {w \in Windows : ~browserWindows[w].closed}

\* Lines 23-38: the BrowserWindow that openPreviewWindow creates, with its
\* parent, the argument given to setMenuBarVisibility, and whether
\* openDevTools() was called on it.
BrowserWindow(alwaysOnTop, hideMenuBar, openDevTools) ==
  [parent |-> IF alwaysOnTop THEN "parentWindow" ELSE "null",
   menuBarVisibility |-> hideMenuBar,
   openDevTools |-> openDevTools,
   devTools |-> IF openDevTools THEN "opening" ELSE "closed",
   closed |-> FALSE]

\* Lines 52-55: the list without the window w.
Filter(windows, w) ==
  LET F[i \in 0..Len(windows)] ==
        IF i = 0 THEN <<>>
        ELSE IF windows[i] # w THEN Append(F[i - 1], windows[i])
        ELSE F[i - 1]
  IN F[Len(windows)]

InitPreview ==
  /\ stack = <<>>
  /\ errors = <<>>
  /\ parentType = "Unknown"
  /\ childType = "Unknown"
  /\ lastObjectName = ""
  /\ budget = 0
  /\ lastReturn = NoReturn
  /\ countInput = NoCount
  /\ countResult = <<>>
  /\ NoPreview

\* Lines 16-58: openPreviewWindow creates a window, registers its handlers
\* and opens its dev tools when the flag is set.
OpenPreviewWindow ==
  /\ Len(browserWindows) < MaxWindows
  /\ \E alwaysOnTop \in BOOLEAN, hideMenuBar \in BOOLEAN :
       browserWindows' = Append(browserWindows,
         BrowserWindow(alwaysOnTop, hideMenuBar, openDevToolsByDefault))
  /\ UNCHANGED <<previewWindows, openDevToolsByDefault, lastDevToolsEvent>>
  /\ UNCHANGED <<validatorVars, countVars>>

\* A 'devtools-closed' handler that leaves the flag as it is.
DevToolsClosedKeepingFlag(w) ==
  /\ w \in OpenWindows
  /\ browserWindows[w].devTools = "opened"
  /\ browserWindows' = [browserWindows EXCEPT ![w].devTools = "closed"]
  /\ lastDevToolsEvent' = "devtools-closed"
  /\ UNCHANGED <<previewWindows, openDevToolsByDefault>>
  /\ UNCHANGED <<validatorVars, countVars>>

\* Lines 34-36: the dev tools of the window w are closed and its
\* 'devtools-closed' handler runs.
DevToolsClosed(w) ==
  /\ w \in OpenWindows
  /\ browserWindows[w].devTools = "opened"
  /\ browserWindows' = [browserWindows EXCEPT ![w].devTools = "closed"]
  /\ openDevToolsByDefault' = FALSE
  /\ lastDevToolsEvent' = "devtools-closed"
  /\ UNCHANGED previewWindows
  /\ UNCHANGED <<validatorVars, countVars>>

\* Lines 31-33: the dev tools of the window w are opened, by the call of
\* line 38 or by the user, and its 'devtools-opened' handler runs.
DevToolsOpened(w) ==
  /\ w \in OpenWindows
  /\ browserWindows[w].devTools \in {"closed", "opening"}
  /\ browserWindows' = [browserWindows EXCEPT ![w].devTools = "opened"]
  /\ openDevToolsByDefault' = TRUE
  /\ lastDevToolsEvent' = "devtools-opened"
  /\ UNCHANGED previewWindows
  /\ UNCHANGED <<validatorVars, countVars>>

\* Lines 51-57: the window w is closed and its 'closed' handler runs.
Closed(w) ==
  /\ w \in OpenWindows
  /\ browserWindows' = [browserWindows EXCEPT ![w].closed = TRUE]
  /\ previewWindows' = Filter(previewWindows, w)
  /\ UNCHANGED <<openDevToolsByDefault, lastDevToolsEvent>>
  /\ UNCHANGED <<validatorVars, countVars>>

NextPreview ==
  \/ OpenPreviewWindow
  \/ \E w \in Windows : DevToolsOpened(w)
  \/ \E w \in Windows : DevToolsClosed(w)
  \/ \E w \in Windows : Closed(w)

SpecPreview == InitPreview /\ [][NextPreview]_vars

(***************************************************************************)
(* Properties                                                              *)
(***************************************************************************)
\* The activations of ValidateFunction that are running or have just
\* returned.
Activations ==
  {stack[i] : i \in DOMAIN stack}
    \cup (IF lastReturn.site = "none" THEN {} ELSE {lastReturn.frame})

\* The activation has passed the parameter count check of lines 158-179.
InLoop(f) == f.pc \in {"loop", "visit", "visiting", "visited", "crashed"}

\* The diagnostics of the list that were appended since f was entered.
AddedSince(f) == SubSeq(errors, f.entryErrors + 1, Len(errors))

\* What ReportAnyError appended for the node of f.
Reported(f) ==
  IF f.diagnostic THEN <<ParserDiagnostic(f.location)>> ELSE <<>>

\* The number of entries of parameters at C++ index >= first that are neither
\* optional nor code-only, and the number of those that are not code-only.
RequiredFrom(parameters, first) ==
  Cardinality({j \in 1..Len(parameters) :
     j > first /\ ~parameters[j].optional /\ ~parameters[j].codeOnly})
WritableFrom(parameters, first) ==
  Cardinality({j \in 1..Len(parameters) :
     j > first /\ ~parameters[j].codeOnly})

\* minParams and maxParams of the call of activation f.
MinParams(f) ==
  RequiredFrom(f.metadata.parameters,
    IF f.function.behaviorName # "" THEN 2
    ELSE IF f.function.objectName # "" THEN 1 ELSE 0)
MaxParams(f) ==
  WritableFrom(f.metadata.parameters,
    IF f.function.behaviorName # "" THEN 2
    ELSE IF f.function.objectName # "" THEN 1 ELSE 0)

\* The text s occurs as a piece of the message.
Mentions(message, s) == \E i \in DOMAIN message : message[i] = s

\* C1: a call whose name has no metadata, on a node without parser
\* diagnostic, adds exactly one diagnostic, invalid_function_name, whose
\* message contains the written name and whose location is the call's; it
\* returns stringToType of the bad metadata's return type and never reaches
\* the return type, count or parameter checks.
C1_UnknownNameRaisesOneDiagnostic ==
  /\ \A i \in DOMAIN stack :
       (stack[i].pc # "start" /\ IsBadExpressionMetadata(stack[i].metadata))
         => stack[i].pc \in {"capability", "name"}
  /\ (lastReturn.site # "none"
      /\ IsBadExpressionMetadata(lastReturn.frame.metadata)
      /\ ~lastReturn.frame.diagnostic)
       => /\ lastReturn.site = "name"
          /\ Len(lastReturn.added) = 1
          /\ lastReturn.added[1].code = "invalid_function_name"
          /\ Mentions(lastReturn.added[1].message,
                      lastReturn.frame.function.functionName)
          /\ lastReturn.added[1].location = lastReturn.frame.location
          /\ lastReturn.type = stringToType(badExpressionMetadata.returnType)
          /\ lastReturn.frame.visits = <<>>

\* C1 witness: UndefinedFunction() without parser diagnostic has returned.
C1_Witness ==
  /\ lastReturn.site = "name"
  /\ lastReturn.frame.function.functionName = "UndefinedFunction"
  /\ ~lastReturn.frame.diagnostic

\* The return type R does not fit the expected type P.
ReturnTypeMismatch(R, P) ==
  \/ R = "Number" /\ P \notin {"Number", "NumberOrString"}
  \/ R = "String" /\ P \notin {"String", "NumberOrString"}
  \/ R \notin {"Number", "String"} /\ P # R

\* C2: a call with found metadata that passed the capability check raises a
\* return type error exactly when its declared return type does not fit the
\* expected type; it then adds exactly one diagnostic (with the ToString or
\* ToNumber hint for Number/String and String/Number), returns the declared
\* type and checks neither the count nor the parameters.
C2_ReturnTypeError ==
  /\ \A f \in Activations :
       (InLoop(f) \/ (f = lastReturn.frame
                      /\ lastReturn.site \in {"tooFew", "end"}))
         => ~ReturnTypeMismatch(stringToType(f.metadata.returnType),
                                f.entryParentType)
  /\ lastReturn.site = "returnType" =>
       LET f == lastReturn.frame
           R == stringToType(f.metadata.returnType)
           P == f.entryParentType
       IN /\ ~IsBadExpressionMetadata(f.metadata)
          /\ ReturnTypeMismatch(R, P)
          /\ lastReturn.added = Reported(f) \o
               <<lastReturn.added[Len(lastReturn.added)]>>
          /\ LET d == lastReturn.added[Len(lastReturn.added)]
             IN /\ d.code = "type_error"
                /\ d.location = f.location
                /\ (R = "Number" /\ P = "String") =>
                     d.message = <<"You tried to use an expression that returns a number, but a string is expected. Use ToString if you need to convert a number to a string.">>
                /\ (R = "String" /\ P = "Number") =>
                     d.message = <<"You tried to use an expression that returns a string, but a number is expected. Use ToNumber if you need to convert a string to a number.">>
          /\ lastReturn.type = R
          /\ f.visits = <<>>
          /\ f.pc = "returnType"

\* C2 witness: a Number-returning call was validated where a String is
\* expected.
C2_Witness ==
  /\ lastReturn.site = "returnType"
  /\ lastReturn.type = "Number"
  /\ lastReturn.frame.entryParentType = "String"

\* C3: fewer written parameters than minParams adds exactly one diagnostic,
\* too_few_parameters, whose message ends with 'exactly N' when
\* minParams = maxParams = N and with 'min-max' otherwise.
C3_TooFewParameters ==
  /\ \A f \in Activations : InLoop(f) => f.size >= MinParams(f)
  /\ lastReturn.site = "end" => lastReturn.frame.size >= MinParams(lastReturn.frame)
  /\ lastReturn.site = "tooFew" =>
       LET f == lastReturn.frame
           d == lastReturn.added[Len(lastReturn.added)]
       IN /\ f.size < MinParams(f)
          /\ lastReturn.added = Reported(f) \o <<d>>
          /\ d.code = "too_few_parameters"
          /\ d.location = f.location
          /\ d.message =
               <<"You have not entered enough parameters for the expression. ">>
               \o (IF MinParams(f) = MaxParams(f)
                   THEN <<"The number of parameters must be exactly ",
                          Digit(MinParams(f))>>
                   ELSE <<"The number of parameters must be: ",
                          Digit(MinParams(f)), "-", Digit(MaxParams(f))>>)

\* C3 witness: Pick() (minParams = 1, maxParams = 2) was validated with no
\* written parameter and the message names the range 1-2.
C3_Witness ==
  /\ lastReturn.site = "tooFew"
  /\ lastReturn.frame.function.functionName = "Pick"
  /\ lastReturn.frame.size = 0
  /\ lastReturn.added[Len(lastReturn.added)].message =
       <<"You have not entered enough parameters for the expression. ",
         "The number of parameters must be: ", "1", "-", "2">>

\* C4 (as claimed): a call that reached the parameter loop with more written
\* parameters than maxParams has added a diagnostic of its own, other than
\* the parser's, at the location of the call.
C4_ExcessParametersRaiseDiagnostic ==
  \A f \in Activations :
    (InLoop(f) /\ f.size > MaxParams(f))
      => \E i \in DOMAIN errors :
           /\ i > f.entryErrors
           /\ errors[i].location = f.location
           /\ errors[i].code # "syntax_error"

\* C5 (as claimed): a call whose number of written parameters is below
\* minParams or above maxParams visits none of its parameters.  Only reads
\* inside the metadata list are counted.
C5_ArityFailureSkipsParameters ==
  \A f \in Activations :
    (/\ InLoop(f) \/ (f = lastReturn.frame /\ lastReturn.site = "tooFew")
     /\ f.size < MinParams(f) \/ f.size > MaxParams(f)
     /\ ~f.outOfBounds)
      => /\ f.visits = <<>>
         /\ f.pc \notin {"visit", "visiting", "visited"}

\* C6: a call with minParams <= written parameters <= maxParams adds no
\* arity diagnostic: it does not return from the too-few branch, and the only
\* diagnostic it can have at the location of the call is the one the parser
\* attached to the node.
C6_NoArityDiagnosticWithinBounds ==
  \A f \in Activations :
    (/\ InLoop(f) \/ (f = lastReturn.frame
                      /\ lastReturn.site \in {"tooFew", "end"})
     /\ MinParams(f) <= f.size
     /\ f.size <= MaxParams(f))
      => /\ ~(f = lastReturn.frame /\ lastReturn.site = "tooFew")
         /\ \A i \in DOMAIN errors :
              (i > f.entryErrors /\ errors[i].location = f.location)
                => /\ f.diagnostic
                   /\ i = f.entryErrors + 1
                   /\ errors[i] = ParserDiagnostic(f.location)

\* C6 witness: Zero() (no required parameter) with no written parameter has
\* returned at the end of the function, having added nothing of its own.
C6_Witness ==
  /\ lastReturn.site = "end"
  /\ lastReturn.frame.function.functionName = "Zero"
  /\ lastReturn.frame.size = 0
  /\ lastReturn.added = Reported(lastReturn.frame)

\* C7: GetMinimumParametersNumber returns the number of entries at index >= i
\* that are neither optional nor code-only, GetMaximumParametersNumber the
\* number of those that are not code-only; the minimum is never above the
\* maximum and both are 0 when i is at or past the end of the list.
C7_ParameterCounts ==
  countResult # <<>> =>
    LET parameters == countInput.parameters
        i == countInput.initialParameterIndex
    IN /\ countResult[1] = RequiredFrom(parameters, i)
       /\ countResult[2] = WritableFrom(parameters, i)
       /\ countResult[1] <= countResult[2]
       /\ i >= Len(parameters) => countResult = <<0, 0>>

\* C7 witness: for an object call (i = 1) on a list with an optional and a
\* required entry after the object entry, the helpers returned 1 and 2.
C7_Witness ==
  /\ countResult = <<1, 2>>
  /\ countInput.initialParameterIndex = 1
  /\ Len(countInput.parameters) = 3
  /\ countInput.parameters[3].optional

\* The C++ index of the k-th (k from 0) entry of parameters that is not
\* code-only, counted from C++ index first; -1 when there is none.
KthWritable(parameters, first, k) ==
  LET found == {j \in 1..Len(parameters) :
                  /\ j > first
                  /\ ~parameters[j].codeOnly
                  /\ Cardinality({m \in 1..j :
                       m > first /\ ~parameters[m].codeOnly}) = k + 1}
  IN IF found = {} THEN 0 - 1 ELSE (CHOOSE j \in found : TRUE) - 1

\* C8 (as claimed): when a call with a parameter count within bounds returns
\* from the loop, every written parameter was visited exactly once, in
\* order, and the k-th one was checked against the k-th metadata entry that
\* is not code-only, counted from the first written parameter index.
C8_ParametersAlignedWithMetadata ==
  (/\ lastReturn.site = "end"
   /\ MinParams(lastReturn.frame) <= lastReturn.frame.size
   /\ lastReturn.frame.size <= MaxParams(lastReturn.frame))
    => LET f == lastReturn.frame
           first == WrittenParametersFirstIndex(
                      f.function.objectName, f.function.behaviorName)
       IN /\ Len(f.visits) = f.size
          /\ \A k \in 1..Len(f.visits) :
               /\ f.visits[k].written = k - 1
               /\ f.visits[k].metadata =
                    KthWritable(f.metadata.parameters, first, k - 1)

\* C9 (as claimed): every index used in metadata.GetParameters()[index] at
\* line 185 is smaller than the size of the list.
C9_MetadataIndexInBounds ==
  \A i \in DOMAIN stack :
    (stack[i].pc = "loop" /\ stack[i].parameterIndex < stack[i].size)
      => stack[i].parameterIndex < Len(stack[i].metadata.parameters)

\* The call of f is written on an object and its metadata requires a
\* capability that the type of the object does not support.
LacksCapability(f) ==
  /\ f.function.objectName # ""
  /\ f.metadata.requiredBaseObjectCapability # ""
  /\ IsUnsupportedBaseObjectCapability(
       GetTypeOfObject(f.function.objectName),
       f.metadata.requiredBaseObjectCapability)

\* C10: an object call whose metadata requires a capability the object's
\* type does not support adds one capability diagnostic located at the
\* object name, returns the declared return type and stops there; no other
\* call (in particular no free function) gets a capability diagnostic.
C10_CapabilityErrorStopsTheCall ==
  /\ \A f \in Activations :
       f.pc \notin {"start", "capability"} => ~LacksCapability(f)
  /\ lastReturn.site # "none" =>
       (LacksCapability(lastReturn.frame) <=> lastReturn.site = "capability")
  /\ lastReturn.site = "capability" =>
       LET f == lastReturn.frame
           d == lastReturn.added[Len(lastReturn.added)]
       IN /\ lastReturn.added = Reported(f) \o <<d>>
          /\ d.code = "type_error"
          /\ d.message =
               <<"This expression exists, but it can't be used on this object.">>
          /\ d.location = f.objectNameLocation
          /\ d.location # f.location
          /\ lastReturn.type = stringToType(f.metadata.returnType)
          /\ f.visits = <<>>
          /\ f.pc = "capability"

\* C10 witness: MyText.Glow(...), on an object type without the "effect"
\* capability, has returned from the capability check.
C10_Witness ==
  /\ lastReturn.site = "capability"
  /\ lastReturn.frame.function.objectName = "MyText"
  /\ lastReturn.frame.function.functionName = "Glow"

\* The step is the check of lines 194-235 on the parameter that the running
\* activation has just visited.
IsParameterCheck ==
  /\ stack # <<>>
  /\ top.pc = "visited"
  /\ Len(stack') = Len(stack)
  /\ stack'[Len(stack)].pc = "loop"

\* The family of a metadata parameter type, in the order lines 197-227 test
\* them.
FamilyOf(type) ==
  IF type \in {"expression", "camera", "forceMultiplier"} THEN "number"
  ELSE IF type \in {"string", "layer", "color", "file", "joyaxis"}
  THEN "string"
  ELSE IF type \in {"objectvar", "globalvar", "scenevar"} THEN "variable"
  ELSE IF type \in {"object", "objectPtr", "objectList",
                    "objectListOrEmptyIfJustDeclared"}
  THEN "object"
  ELSE "none"

\* The location of the written parameter the running activation is at.
ParameterLocation ==
  [path |-> Append(top.location.path, top.parameterIndex), part |-> "node"]

\* C11: the check of a written parameter of an object-family kind raises
\* nothing for a bare identifier and sets lastObjectName to its name, which
\* is still there when the loop goes on to the next sibling; for any other
\* node it appends exactly one malformed_object_parameter diagnostic located
\* at the parameter and leaves lastObjectName unchanged.
C11_ObjectParameterMustBeIdentifier ==
  [][/\ (IsParameterCheck /\ FamilyOf(top.parameterMetadata.type) = "object")
          => IF top.parameter.kind = "identifier"
             THEN /\ errors' = errors
                  /\ lastObjectName' = top.parameter.identifierName
             ELSE /\ Len(errors') = Len(errors) + 1
                  /\ SubSeq(errors', 1, Len(errors)) = errors
                  /\ errors'[Len(errors')].code = "malformed_object_parameter"
                  /\ errors'[Len(errors')].location = ParameterLocation
                  /\ lastObjectName' = lastObjectName
     /\ (stack # <<>> /\ top.pc = "loop")
          => lastObjectName' = lastObjectName]_vars

\* C11 witness: Count(MyObject, ...) has checked its first parameter, an
\* identifier for an objectList entry, without diagnostic, and is about to
\* visit the sibling parameter with lastObjectName = "MyObject".
C11_Witness ==
  /\ stack # <<>>
  /\ top.pc = "visit"
  /\ top.function.functionName = "Count"
  /\ top.parameterIndex = 1
  /\ top.parameter.kind = "identifier"
  /\ lastObjectName = "MyObject"
  /\ AddedSince(top) = Reported(top)

\* The type that lines 198, 202 and 206 compare childType with, for a
\* parameter kind of the number, string or variable family.
FamilyType(type) ==
  IF FamilyOf(type) = "number" THEN "Number"
  ELSE IF FamilyOf(type) = "string" THEN "String"
  ELSE "Variable"

\* C12: when the resolved type of a written parameter of a number-, string-
\* or variable-family kind is not the type of that family, the check of the
\* parameter appends a diagnostic located at that parameter.
C12_FamilyMismatchRaisesDiagnostic ==
  [][(/\ IsParameterCheck
      /\ FamilyOf(top.parameterMetadata.type) \in {"number", "string", "variable"}
      /\ childType # FamilyType(top.parameterMetadata.type))
       => /\ Len(errors') = Len(errors) + 1
          /\ SubSeq(errors', 1, Len(errors)) = errors
          /\ errors'[Len(errors')].location = ParameterLocation]_vars

\* The written parameters the activation f has visited so far.
VisitedIndexes(f) == {f.visits[i].written : i \in 1..Len(f.visits)}

\* C13: the check of a written parameter whose kind is in none of the four
\* families appends exactly one unknown_parameter_type diagnostic located at
\* that parameter, and the check of a parameter of one of the four families
\* appends no diagnostic of that code; neither stops the validation: the loop
\* goes past no written parameter without checking it, no activation is
\* abandoned, and a call that reached the loop returns its declared type.
C13_UnknownParameterTypeDoesNotStop ==
  [][/\ IsParameterCheck
          => IF FamilyOf(top.parameterMetadata.type) = "none"
             THEN /\ Len(errors') = Len(errors) + 1
                  /\ SubSeq(errors', 1, Len(errors)) = errors
                  /\ errors'[Len(errors')].code = "unknown_parameter_type"
                  /\ errors'[Len(errors')].location = ParameterLocation
             ELSE \A i \in 1..Len(errors') :
                    i > Len(errors) => errors'[i].code # "unknown_parameter_type"
     /\ \A i \in 1..Len(stack') :
          /\ stack'[i].pc # "crashed"
          /\ stack'[i].pc = "loop"
               => VisitedIndexes(stack'[i]) = 0..(stack'[i].parameterIndex - 1)
     /\ (lastReturn' # lastReturn /\ lastReturn'.site = "end")
          => lastReturn'.type = lastReturn'.frame.returnType]_vars

\* C14: every step leaves the recorded diagnostics in place and in order,
\* the list growing only at its end; a call that returns from its loop has
\* gone through all its written parameters, whatever diagnostics their checks
\* raised; and no activation ends otherwise than by returning a type.
C14_DiagnosticsAccumulateWithoutInterrupting ==
  [][/\ Len(errors') >= Len(errors)
     /\ SubSeq(errors', 1, Len(errors)) = errors
     /\ (lastReturn' # lastReturn /\ lastReturn'.site = "end")
          => /\ lastReturn'.frame.parameterIndex = lastReturn'.frame.size
             /\ lastReturn'.type \in Type
     /\ \A i \in 1..Len(stack') : stack'[i].pc # "crashed"]_vars

\* The expected type in force while the i-th activation of the stack runs:
\* parentType for the running one, the value a nested call was entered with
\* for one that waits for it.
ParentTypeOf(i) ==
  IF i = Len(stack) THEN parentType ELSE stack[i + 1].entryParentType

\* C15: while a written parameter is visited, and until line 194 restores
\* it, parentType is stringToType of the metadata kind the parameter is
\* checked against; everywhere else in an activation parentType is the value
\* it had on entry, and every return, of nested calls too, leaves parentType
\* at the value the call was entered with.
C15_ParentTypeRestored ==
  /\ \A i \in 1..Len(stack) :
       IF stack[i].pc \in {"visit", "visiting", "visited"}
       THEN /\ ParentTypeOf(i) = stringToType(stack[i].parameterMetadata.type)
            /\ stack[i].currentParentType = stack[i].entryParentType
       ELSE ParentTypeOf(i) = stack[i].entryParentType
  /\ lastReturn # NoReturn
       => lastReturn.parentType = lastReturn.frame.entryParentType

\* C15 witness: a nested call has returned, the root call has checked that
\* parameter and is back at the head of its loop with the expected type it was
\* entered with, which is not the one pushed for the parameter.
C15_Witness ==
  /\ Len(stack) = 1
  /\ top.pc = "loop"
  /\ top.parameterIndex = 1
  /\ lastReturn # NoReturn
  /\ lastReturn.depth = 2
  /\ parentType = top.entryParentType
  /\ parentType # stringToType(top.parameterMetadata.type)

\* The codes of the diagnostics that lines 79-179 raise about the call
\* itself, and of those that lines 196-234 raise about a written parameter.
CallLevelCodes == {"type_error", "invalid_function_name", "too_few_parameters"}
ParameterLevelCodes == {"malformed_object_parameter", "unknown_parameter_type"}

\* Whether the diagnostic d is one the call f appended about itself: located
\* at the call, parser diagnostic and the caller's diagnostic about the same
\* node excluded.
IsCallLevelOf(f, d) ==
  /\ d.location.path = f.location.path
  /\ d.code \in CallLevelCodes

\* Whether the diagnostic d is located in the subtree of a written parameter
\* of the call f, and the index of that parameter.
IsParameterLevelOf(f, d) ==
  /\ Len(d.location.path) > Len(f.location.path)
  /\ SubSeq(d.location.path, 1, Len(f.location.path)) = f.location.path
ParameterOf(f, d) == d.location.path[Len(f.location.path) + 1]

\* C16: within one call, every diagnostic about the call itself precedes
\* every diagnostic of its parameters, the diagnostics of written parameter
\* k precede those of written parameter l when k < l, the parameter's own
\* diagnostic follows those of its subtree, and at most one diagnostic about
\* the call itself is appended.
C16_DiagnosticsInPreOrder ==
  \A f \in Activations :
    \A i, j \in (f.entryErrors + 1)..Len(errors) :
      i < j =>
        /\ ~(IsCallLevelOf(f, errors[i]) /\ IsCallLevelOf(f, errors[j]))
        /\ ~(IsParameterLevelOf(f, errors[i]) /\ IsCallLevelOf(f, errors[j]))
        /\ (IsParameterLevelOf(f, errors[i]) /\ IsParameterLevelOf(f, errors[j]))
             => /\ ParameterOf(f, errors[i]) <= ParameterOf(f, errors[j])
                /\ (/\ errors[i].code \in ParameterLevelCodes
                    /\ Len(errors[i].location.path) = Len(f.location.path) + 1)
                     => ParameterOf(f, errors[i]) < ParameterOf(f, errors[j])

\* C16 witness: a call has a diagnostic raised in the subtree of its first
\* written parameter, then that parameter's own diagnostic, then a diagnostic
\* of its second written parameter.
C16_Witness ==
  /\ Len(stack) = 1
  /\ Len(errors) >= 3
  /\ Len(errors[1].location.path) = 1
  /\ errors[1].location.path[1] = 0
  /\ errors[1].code \in CallLevelCodes
  /\ errors[2].code \in ParameterLevelCodes
  /\ errors[2].location.path = <<0>>
  /\ errors[3].location.path = <<1>>

\* The windows that previewWindows holds.
Listed == {previewWindows[i] : i \in 1..Len(previewWindows)}

\* C17: previewWindows holds exactly the windows that were opened and have
\* not received 'closed', each of them once.
C17_PreviewWindowsAreTheOpenWindows ==
  /\ Listed = OpenWindows
  /\ Len(previewWindows) = Cardinality(OpenWindows)

\* C18: openDevToolsByDefault starts false and is true exactly when the most
\* recent dev tools event of any window was 'devtools-opened'; a window that
\* openPreviewWindow creates has its dev tools opened exactly when the flag
\* was true at the call; opening or closing a window leaves the flag as it
\* was.
C18_OpenDevToolsByDefaultFollowsLastEvent ==
  /\ openDevToolsByDefault = FALSE
  /\ [][/\ openDevToolsByDefault' = (lastDevToolsEvent' = "devtools-opened")
        /\ Len(browserWindows') > Len(browserWindows)
             => /\ browserWindows'[Len(browserWindows')].openDevTools
                     = openDevToolsByDefault
                /\ openDevToolsByDefault' = openDevToolsByDefault
        /\ (\E w \in Windows :
              browserWindows'[w].closed # browserWindows[w].closed)
             => openDevToolsByDefault' = openDevToolsByDefault]_vars

\* C18 witness: dev tools were opened and closed again in one window while
\* another window, created with its dev tools opened, is still there, and a
\* window was closed; the flag is false.
C18_Witness ==
  /\ lastDevToolsEvent = "devtools-closed"
  /\ ~openDevToolsByDefault
  /\ \E w \in OpenWindows : browserWindows[w].openDevTools
  /\ \E w \in Windows : browserWindows[w].closed

====
